---- MODULE Spec2Model ----
(***************************************************************************)
(* RentalApp: the application/lease lifecycle (applicationControllers),    *)
(* the authorization gate (authMiddleware), the next-payment-date loop and *)
(* the property controllers, as state machines over the database tables    *)
(* the handlers read and write.  Every await of a handler is one step, so  *)
(* that handlers of concurrent requests interleave at their database       *)
(* calls, and every database write may fail (the handler's catch block).   *)
(***************************************************************************)
EXTENDS Integers, Sequences, FiniteSets, TLC

\* ---------------------------------------------------------------- bounds
\* Largest application id and largest lease id the database hands out.
MaxApps == 1
MaxLeases == 3
\* Last calendar year of the dates calculateNextPaymentDate is run on.
LastYear == 2024
\* Largest property id the database hands out, and most photos of one upload.
MaxProperties == 2
MaxFiles == 1
\* Most photos the bucket holds.
MaxObjects == 2

\* ------------------------------------------------------------- state
VARIABLES
    leases,           \* table Lease: a set of rows
    applications,     \* table Application: id -> row
    propertyTenants,  \* relation Property.tenants: property id -> set of tenants
    nextLeaseId,      \* the Lease id sequence
    nextAppId,        \* the Application id sequence
    req,              \* the request handlers in flight: slot -> handler frame
    createdWith,      \* history: application id -> the lease createApplication bound to it
    authPc,           \* authMiddleware: "idle", "gate" (request at the gate), "next", "responded"
    authorization,    \* authMiddleware: req.headers.authorization, split at " "
    allowedRoles,     \* authMiddleware: the allow-list the route was built with
    resStatus,        \* authMiddleware: the statuses of the responses sent
    reqUser,          \* authMiddleware: req.user (<< >> while unset)
    nextCalls,        \* authMiddleware: how often next() was called
    datePc,           \* calculateNextPaymentDate: "idle", "loop", "returned"
    startDate,        \* calculateNextPaymentDate: its argument
    today,            \* calculateNextPaymentDate: new Date() at its entry
    nextPaymentDate,  \* calculateNextPaymentDate: the date the loop advances
    visited,          \* history: the values nextPaymentDate has taken, in order
    locations,        \* table Location: a set of rows
    properties,       \* table Property: id -> row
    nextLocationId,   \* the Location id sequence
    nextPropertyId,   \* the Property id sequence
    s3Objects,        \* the photos stored in the bucket (a count)
    pReq              \* the property handler in flight: its frame

lifecycleVars == <<leases, applications, propertyTenants, nextLeaseId, nextAppId, req, createdWith>>

authVars == <<authPc, authorization, allowedRoles, resStatus, reqUser, nextCalls>>

dateVars == <<datePc, startDate, today, nextPaymentDate, visited>>

propertyVars == <<locations, properties, nextLocationId, nextPropertyId, s3Objects, pReq>>

vars == <<lifecycleVars, authVars, dateVars, propertyVars>>

\* ------------------------------------------------------- lifecycle data
\* One handler runs at a time under Spec; its awaits are still separate steps.
Reqs == {"r1"}
Tenants == {"t1", "t2"}
Managers == {"m1", "m2"}
Statuses == {"Pending", "Approved", "Denied"}
None == "none"
NoLease == 0

\* The Property rows the application handlers read (id -> manager, rent, deposit).
PropertyTable == (1 :> [managerCognitoId |-> "m1", pricePerMonth |-> 10, securityDeposit |-> 5]) @@ (2 :> [managerCognitoId |-> "m2", pricePerMonth |-> 20, securityDeposit |-> 7])
PropertyIds == DOMAIN PropertyTable
\* Property ids a request may name: the existing ones and one that does not exist.
RequestPropertyIds == PropertyIds \cup {3}
AppIds == 1..MaxApps
LeaseIds == {l.id : l \in leases}

\* The database as a handler finds it when its request arrives (history).
Db == [leases |-> leases, applications |-> applications, propertyTenants |-> propertyTenants]

\* A handler frame: the request's parameters, the handler's locals (application,
\* newLease), its response (res, body; error is the caught error's origin) and
\* before, the database when the request arrived.
IdleFrame == [pc |-> "idle", kind |-> None, propertyId |-> 0, tenantCognitoId |-> None, status |-> None, id |-> 0, userId |-> None, userType |-> None, application |-> None, newLease |-> NoLease, res |-> 0, body |-> None, error |-> None, before |-> None]

InitLifecycle ==
    /\ leases = {}
    /\ applications = << >>
    /\ propertyTenants = [p \in PropertyIds |-> {}]
    /\ nextLeaseId = 1
    /\ nextAppId = 1
    /\ req = [r \in Reqs |-> IdleFrame]
    /\ createdWith = << >>

\* A slot takes the next request once its handler has returned.
Free(r) == req[r].pc = "idle"

\* Lease and application ids the handlers in flight may still draw.
LeaseDraws == Cardinality({r \in DOMAIN req : \/ req[r].pc = "ca_lease" \/ req[r].pc = "ua_lease"})
AppDraws == Cardinality({r \in DOMAIN req : req[r].pc \in {"ca_lease", "ca_app"}})

Respond(r, code, body) == req' = [req EXCEPT ![r].pc = "done", ![r].res = code, ![r].body = body]

\* The handler's catch block: 500 with the error's message.
Catch(r, origin) == req' = [req EXCEPT ![r].pc = "done", ![r].res = 500, ![r].error = origin]

DbUnchanged == UNCHANGED <<leases, applications, propertyTenants, nextLeaseId, nextAppId, createdWith>>

\* The response has been sent and the async handler returns: its frame is gone.
handlerReturns(r) ==
    /\ req[r].pc = "done"
    /\ DbUnchanged
    /\ req' = [req EXCEPT ![r] = IdleFrame]

\* ------------------------------------------------------ createApplication
LeaseRow(id, propertyId, tenant) == [id |-> id, propertyId |-> propertyId, tenantCognitoId |-> tenant, rent |-> PropertyTable[propertyId].pricePerMonth, deposit |-> PropertyTable[propertyId].securityDeposit]

ApplicationRow(id, status, propertyId, tenant, leaseId) == [id |-> id, status |-> status, propertyId |-> propertyId, tenantCognitoId |-> tenant, leaseId |-> leaseId]

\* The request arrives and the handler looks the property up: 404 when it is
\* missing, else the transaction is opened.
createApplication_findProperty(r, propertyId, tenant, status) ==
    /\ Free(r)
    /\ nextAppId + AppDraws <= MaxApps
    /\ nextLeaseId + LeaseDraws <= MaxLeases
    /\ DbUnchanged
    /\ \E ok \in BOOLEAN :
        LET frame == [IdleFrame EXCEPT !.kind = "create", !.propertyId = propertyId, !.tenantCognitoId = tenant, !.status = status, !.before = Db]
        IN IF ~ok THEN req' = [req EXCEPT ![r] = [frame EXCEPT !.pc = "done", !.res = 500, !.error = "property.findUnique"]]
           ELSE IF propertyId \notin PropertyIds
           THEN req' = [req EXCEPT ![r] = [frame EXCEPT !.pc = "done", !.res = 404]]
           ELSE req' = [req EXCEPT ![r] = [frame EXCEPT !.pc = "ca_lease"]]

\* Mutant: lease.create outside the transaction (the row is visible at once and
\* survives a failure of the application insert).
createApplication_leaseCreateNoTx(r) ==
    /\ req[r].pc = "ca_lease"
    /\ UNCHANGED <<applications, propertyTenants, nextAppId, createdWith>>
    /\ \E ok \in BOOLEAN :
        IF ok
        THEN /\ nextLeaseId' = nextLeaseId + 1
             /\ leases' = leases \cup {LeaseRow(nextLeaseId, req[r].propertyId, req[r].tenantCognitoId)}
             /\ req' = [req EXCEPT ![r].pc = "ca_app", ![r].newLease = nextLeaseId]
        ELSE /\ UNCHANGED <<leases, nextLeaseId>>
             /\ Catch(r, "lease.create")

\* lease.create inside the transaction: the row is the transaction's own until
\* the commit (it is kept in the frame); a failure rolls the transaction back.
createApplication_leaseCreate(r) ==
    /\ req[r].pc = "ca_lease"
    /\ UNCHANGED <<leases, applications, propertyTenants, nextAppId, createdWith>>
    /\ \E ok \in BOOLEAN :
        IF ok
        THEN /\ nextLeaseId' = nextLeaseId + 1
             /\ req' = [req EXCEPT ![r].pc = "ca_app", ![r].newLease = nextLeaseId]
        ELSE /\ nextLeaseId' = nextLeaseId
             /\ Catch(r, "lease.create")

\* application.create inside the transaction, then the commit: the lease and
\* the application become visible together; a failure rolls both back.
createApplication_applicationCreate(r) ==
    /\ req[r].pc = "ca_app"
    /\ UNCHANGED <<propertyTenants, nextLeaseId>>
    /\ \E ok \in BOOLEAN :
        IF ok
        THEN LET row == ApplicationRow(nextAppId, req[r].status, req[r].propertyId, req[r].tenantCognitoId, req[r].newLease)
             IN /\ leases' = leases \cup {LeaseRow(req[r].newLease, req[r].propertyId, req[r].tenantCognitoId)}
                /\ applications' = applications @@ (nextAppId :> row)
                /\ createdWith' = createdWith @@ (nextAppId :> req[r].newLease)
                /\ nextAppId' = nextAppId + 1
                /\ req' = [req EXCEPT ![r].pc = "done", ![r].id = nextAppId, ![r].res = 201, ![r].body = row]
        ELSE /\ UNCHANGED <<leases, applications, createdWith, nextAppId>>
             /\ Catch(r, "application.create")

\* -------------------------------------------------- updateApplicationStatus
\* The request arrives and the handler fetches the application: 404 when it is
\* missing, else the branch on status === "Approved".
updateApplicationStatus_find(r, id, status) ==
    /\ Free(r)
    /\ status = "Approved" => nextLeaseId + LeaseDraws <= MaxLeases
    /\ DbUnchanged
    /\ \E ok \in BOOLEAN :
        LET frame == [IdleFrame EXCEPT !.kind = "update", !.id = id, !.status = status, !.before = Db]
        IN IF ~ok THEN req' = [req EXCEPT ![r] = [frame EXCEPT !.pc = "done", !.res = 500, !.error = "application.findUnique"]]
           ELSE IF id \notin DOMAIN applications
           THEN req' = [req EXCEPT ![r] = [frame EXCEPT !.pc = "done", !.res = 404]]
           ELSE req' = [req EXCEPT ![r] = [frame EXCEPT !.pc = IF status = "Approved" THEN "ua_lease" ELSE "ua_status", !.application = applications[id]]]

\* Mutant: the approval reuses the lease the application already references
\* instead of creating one.
updateApplicationStatus_leaseReuse(r) ==
    /\ req[r].pc = "ua_lease"
    /\ UNCHANGED <<leases, nextLeaseId, applications, propertyTenants, nextAppId, createdWith>>
    /\ req' = [req EXCEPT ![r].pc = "ua_link", ![r].newLease = req[r].application.leaseId]

\* Approved: lease.create, straight into the table (no transaction is open).
updateApplicationStatus_leaseCreate(r) ==
    /\ req[r].pc = "ua_lease"
    /\ UNCHANGED <<applications, propertyTenants, nextAppId, createdWith>>
    /\ \E ok \in BOOLEAN :
        IF ok
        THEN /\ leases' = leases \cup {LeaseRow(nextLeaseId, req[r].application.propertyId, req[r].application.tenantCognitoId)}
             /\ nextLeaseId' = nextLeaseId + 1
             /\ req' = [req EXCEPT ![r].pc = "ua_link", ![r].newLease = nextLeaseId]
        ELSE /\ UNCHANGED <<leases, nextLeaseId>>
             /\ Catch(r, "lease.create")

\* Approved: property.update connecting the tenant to the property's tenants.
updateApplicationStatus_connectTenant(r) ==
    /\ req[r].pc = "ua_link"
    /\ UNCHANGED <<leases, applications, nextLeaseId, nextAppId, createdWith>>
    /\ \E ok \in BOOLEAN :
        IF ok
        THEN /\ propertyTenants' = [propertyTenants EXCEPT ![req[r].application.propertyId] = @ \cup {req[r].application.tenantCognitoId}]
             /\ req' = [req EXCEPT ![r].pc = "ua_update"]
        ELSE /\ UNCHANGED propertyTenants
             /\ Catch(r, "property.update")

\* Approved: application.update of the status and the lease reference.
updateApplicationStatus_updateApproved(r) ==
    /\ req[r].pc = "ua_update"
    /\ UNCHANGED <<leases, propertyTenants, nextLeaseId, nextAppId, createdWith>>
    /\ \E ok \in BOOLEAN :
        IF ok
        THEN /\ applications' = [applications EXCEPT ![req[r].id].status = req[r].status, ![req[r].id].leaseId = req[r].newLease]
             /\ req' = [req EXCEPT ![r].pc = "ua_refetch"]
        ELSE /\ UNCHANGED applications
             /\ Catch(r, "application.update")

\* Mutant: the status update also unsets the lease reference.
updateApplicationStatus_updateStatusUnsetsLease(r) ==
    /\ req[r].pc = "ua_status"
    /\ UNCHANGED <<leases, propertyTenants, nextLeaseId, nextAppId, createdWith>>
    /\ applications' = [applications EXCEPT ![req[r].id].status = req[r].status, ![req[r].id].leaseId = NoLease]
    /\ req' = [req EXCEPT ![r].pc = "ua_refetch"]

\* Mutant: the status update writes back the application as the handler
\* fetched it, with the new status.
updateApplicationStatus_updateStatusStale(r) ==
    /\ req[r].pc = "ua_status"
    /\ UNCHANGED <<leases, propertyTenants, nextLeaseId, nextAppId, createdWith>>
    /\ applications' = [applications EXCEPT ![req[r].id] = [req[r].application EXCEPT !.status = req[r].status]]
    /\ req' = [req EXCEPT ![r].pc = "ua_refetch"]

\* Any other status: application.update of the status alone.
updateApplicationStatus_updateStatus(r) ==
    /\ req[r].pc = "ua_status"
    /\ UNCHANGED <<leases, propertyTenants, nextLeaseId, nextAppId, createdWith>>
    /\ \E ok \in BOOLEAN :
        IF ok
        THEN /\ applications' = [applications EXCEPT ![req[r].id].status = req[r].status]
             /\ req' = [req EXCEPT ![r].pc = "ua_refetch"]
        ELSE /\ UNCHANGED applications
             /\ Catch(r, "application.update")

\* The application is fetched again and sent as the response.
updateApplicationStatus_refetch(r) ==
    /\ req[r].pc = "ua_refetch"
    /\ DbUnchanged
    /\ \E ok \in BOOLEAN :
        IF ok THEN Respond(r, 200, applications[req[r].id]) ELSE Catch(r, "application.findUnique (refetch)")

\* --------------------------------------------------------- listApplications
UserIds == Tenants \cup Managers \cup {None}
UserTypes == {"tenant", "manager", "admin", None}

\* The where clause built from the query: None is a missing (falsy) parameter.
WhereClause(userId, userType) ==
    IF userId # None /\ userType # None
    THEN IF userType = "tenant" THEN [by |-> "tenantCognitoId", value |-> userId]
         ELSE IF userType = "manager" THEN [by |-> "managerCognitoId", value |-> userId]
         ELSE [by |-> "nothing", value |-> None]
    ELSE [by |-> "nothing", value |-> None]

\* application.findMany({ where }): the empty clause matches every row.
FindManyApplications(where) ==
    {applications[a] : a \in {x \in DOMAIN applications :
        CASE where.by = "tenantCognitoId" -> applications[x].tenantCognitoId = where.value
          [] where.by = "managerCognitoId" -> PropertyTable[applications[x].propertyId].managerCognitoId = where.value
          [] OTHER -> TRUE}}

\* lease.findFirst of a tenant on a property, latest start first (a lease starts
\* when it is created, and ids are drawn in creation order).
FindFirstLease(tenant, propertyId) ==
    LET found == {l \in leases : l.tenantCognitoId = tenant /\ l.propertyId = propertyId}
    IN IF found = {} THEN None ELSE CHOOSE l \in found : \A m \in found : m.id <= l.id

\* The request arrives and the handler runs findMany with its where clause.
listApplications_findMany(r, userId, userType) ==
    /\ Free(r)
    /\ DbUnchanged
    /\ \E ok \in BOOLEAN :
        LET frame == [IdleFrame EXCEPT !.kind = "list", !.userId = userId, !.userType = userType, !.before = Db]
        IN IF ok
           THEN req' = [req EXCEPT ![r] = [frame EXCEPT !.pc = "la_leases", !.body = FindManyApplications(WhereClause(userId, userType))]]
           ELSE req' = [req EXCEPT ![r] = [frame EXCEPT !.pc = "done", !.res = 500, !.error = "application.findMany"]]

\* Each application is joined with its latest lease and the list is sent.
listApplications_respond(r) ==
    /\ req[r].pc = "la_leases"
    /\ DbUnchanged
    /\ \E ok \in BOOLEAN :
        IF ok
        THEN Respond(r, 200, {[application |-> a, lease |-> FindFirstLease(a.tenantCognitoId, a.propertyId)] : a \in req[r].body})
        ELSE Catch(r, "lease.findFirst")

\* ------------------------------------------------- claims on the lifecycle
IdsOf(rows) == {l.id : l \in rows}

\* C1: a successful updateApplicationStatus call with status "Approved", from any
\* state (the application may already be Approved), has created exactly one new
\* Lease, whose id no lease had when the call began (so it is not the lease
\* createApplication bound), and the application's lease reference, in the table
\* and in the response, points to it.
C1_ApprovalCreatesOneNewLease ==
    \A r \in DOMAIN req :
        (req[r].kind = "update" /\ req[r].status = "Approved" /\ req[r].pc = "done" /\ req[r].res = 200) =>
            /\ \E l \in leases :
                /\ l.id = req[r].newLease
                /\ l.id \notin IdsOf(req[r].before.leases)
                /\ leases = req[r].before.leases \cup {l}
                /\ l \notin req[r].before.leases
            /\ req[r].newLease # createdWith[req[r].id]
            /\ applications[req[r].id].leaseId = req[r].newLease
            /\ applications[req[r].id].status = "Approved"
            /\ req[r].body.leaseId = req[r].newLease

\* C1's case: an approval of an application that was already Approved succeeded.
C1_Witness ==
    \E r \in DOMAIN req :
        /\ req[r].kind = "update" /\ req[r].status = "Approved" /\ req[r].pc = "done" /\ req[r].res = 200
        /\ req[r].before.applications[req[r].id].status = "Approved"
        /\ req[r].before.applications[req[r].id].leaseId # createdWith[req[r].id]

\* C2: an updateApplicationStatus call with any status other than "Approved"
\* creates no Lease and leaves the lease reference and the property's tenants
\* as they were, at every step of the call: only the status field changes.
C2_OtherStatusOnlyStatus ==
    \A r \in DOMAIN req :
        (req[r].kind = "update" /\ req[r].status # "Approved") =>
            /\ leases = req[r].before.leases
            /\ propertyTenants = req[r].before.propertyTenants
            /\ req[r].newLease = NoLease
            /\ \/ applications = req[r].before.applications
               \/ /\ req[r].id \in DOMAIN applications
                  /\ applications = [req[r].before.applications EXCEPT ![req[r].id].status = req[r].status]
            /\ (req[r].pc = "done" /\ req[r].res = 200) =>
                /\ applications[req[r].id].status = req[r].status
                /\ req[r].body = [req[r].before.applications[req[r].id] EXCEPT !.status = req[r].status]

\* C2's case: a Denied update of an Approved application succeeded.
C2_Witness ==
    \E r \in DOMAIN req :
        /\ req[r].kind = "update" /\ req[r].status = "Denied" /\ req[r].pc = "done" /\ req[r].res = 200
        /\ req[r].before.applications[req[r].id].status = "Approved"
        /\ req[r].before.propertyTenants[req[r].application.propertyId] # {}

\* C3: an Approved application references exactly one Lease, and an application
\* with any other status has its lease reference unset or equal to the lease
\* bound to it at creation (never an approval-time lease).
C3_StatusLeaseInvariant ==
    \A a \in DOMAIN applications :
        /\ applications[a].status = "Approved" =>
            Cardinality({l \in leases : l.id = applications[a].leaseId}) = 1
        /\ applications[a].status # "Approved" =>
            applications[a].leaseId \in {NoLease, createdWith[a]}

\* C4: when a write of the approval path fails, none of the call's writes
\* persist: no new Lease, no new tenant link, the application as it was.
C4_ApprovalAllOrNothing ==
    \A r \in DOMAIN req :
        (req[r].kind = "update" /\ req[r].status = "Approved" /\ req[r].pc = "done" /\ req[r].res = 500 /\ req[r].error \in {"lease.create", "property.update", "application.update"}) =>
            /\ leases = req[r].before.leases
            /\ propertyTenants = req[r].before.propertyTenants
            /\ applications = req[r].before.applications

\* C5: createApplication is all-or-nothing.  While the call runs nothing of it is
\* visible; after it, either one new Lease and one new Application referencing
\* it are in the tables (201), or the tables are as before; a missing property
\* is reported as 404.
C5_CreateAllOrNothing ==
    \A r \in DOMAIN req :
        req[r].kind = "create" =>
            /\ (req[r].pc = "done" /\ req[r].res = 201) =>
                /\ \E l \in leases :
                    /\ l \notin req[r].before.leases
                    /\ leases = req[r].before.leases \cup {l}
                    /\ req[r].id \notin DOMAIN req[r].before.applications
                    /\ applications = req[r].before.applications @@ (req[r].id :> req[r].body)
                    /\ applications[req[r].id].leaseId = l.id
                /\ req[r].propertyId \in PropertyIds
            /\ ~(req[r].pc = "done" /\ req[r].res = 201) =>
                /\ leases = req[r].before.leases
                /\ applications = req[r].before.applications
            /\ (req[r].pc = "done" /\ req[r].propertyId \notin PropertyIds /\ req[r].error # "property.findUnique") =>
                req[r].res = 404
            /\ propertyTenants = req[r].before.propertyTenants

\* C5's case: the application insert failed after the lease insert had succeeded
\* inside the transaction.
C5_Witness ==
    \E r \in DOMAIN req :
        /\ req[r].kind = "create" /\ req[r].pc = "done" /\ req[r].res = 500
        /\ req[r].error = "application.create" /\ req[r].newLease # NoLease

\* C6: every application a listApplications response returns is in the caller's
\* scope: the tenant's own, or on a property the manager owns; no request gets
\* the unscoped table.
C6_ListIsScoped ==
    \A r \in DOMAIN req :
        (req[r].kind = "list" /\ req[r].pc = "done" /\ req[r].res = 200) =>
            \A e \in req[r].body :
                \/ req[r].userType = "tenant" /\ e.application.tenantCognitoId = req[r].userId
                \/ req[r].userType = "manager" /\ PropertyTable[e.application.propertyId].managerCognitoId = req[r].userId

\* C13: between calls of createApplication and updateApplicationStatus, every
\* Approved application has its tenant in the tenants of its property, and a
\* tenant is among a property's tenants only if an approval of one of that
\* tenant's applications for that property was performed (the application
\* then references a lease other than the one it was created with).
C13_ApprovedIsOccupant ==
    (\A r \in DOMAIN req : req[r].pc \in {"idle", "done"}) =>
        /\ \A a \in DOMAIN applications :
            applications[a].status = "Approved" => applications[a].tenantCognitoId \in propertyTenants[applications[a].propertyId]
        /\ \A p \in PropertyIds : \A t \in propertyTenants[p] :
            \E a \in DOMAIN applications :
                /\ applications[a].tenantCognitoId = t
                /\ applications[a].propertyId = p
                /\ applications[a].leaseId \notin {NoLease, createdWith[a]}

\* Two updateApplicationStatus calls in flight at once, on the application
\* that one createApplication call has left.
ConcurrentReqs == {"r1", "r2"}
InitialApplication == ApplicationRow(1, "Pending", 1, "t1", 1)
InitialLease == LeaseRow(1, 1, "t1")

\* The call in slot r has run its application.update on application id.
HasWritten(r, id) ==
    /\ req[r].kind = "update"
    /\ req[r].id = id
    /\ \/ req[r].pc = "ua_refetch"
       \/ req[r].pc = "done" /\ req[r].res = 200
       \/ req[r].pc = "done" /\ req[r].error = "application.findUnique (refetch)"
\* What the call in slot r, run alone, makes of the application row; the
\* lease it references is the one the call created.
WriteOf(r, row) == IF req[r].status = "Approved" THEN [row EXCEPT !.status = "Approved", !.leaseId = req[r].newLease] ELSE [row EXCEPT !.status = req[r].status]
Effect(r, row) == IF HasWritten(r, row.id) THEN WriteOf(r, row) ELSE row
SequentialOutcomes == {Effect(o[2], Effect(o[1], InitialApplication)) : o \in {q \in (DOMAIN req) \X (DOMAIN req) : q[1] # q[2]}}
Quiescent == \A r \in DOMAIN req : req[r].pc \in {"idle", "done"}
Succeeded(r) == req[r].kind = "update" /\ req[r].pc = "done" /\ req[r].res = 200

\* C14 as claimed: with updateApplicationStatus calls on one application
\* interleaved, every successful call's response shows the status this call
\* wrote, and the final status and lease reference are those of some
\* sequential order of the calls.
C14_ConcurrentUpdatesAsClaimed ==
    /\ \A r \in DOMAIN req : Succeeded(r) => req[r].body.status = req[r].status
    /\ Quiescent => applications[InitialApplication.id] \in SequentialOutcomes

\* C14: with updateApplicationStatus calls on one application interleaved,
\* every successful call's response shows the application as its re-fetch
\* found it: with the status this call wrote, or with the status another of
\* the calls had written by then; and the final status and lease reference
\* are those of some sequential order of the calls.
C14_ConcurrentUpdates ==
    /\ \A r \in DOMAIN req : Succeeded(r) =>
        \/ req[r].body.status = req[r].status
        \/ \E other \in DOMAIN req \ {r} : HasWritten(other, req[r].id) /\ req[r].body.status = req[other].status
    /\ Quiescent => applications[InitialApplication.id] \in SequentialOutcomes

\* C14's case: two calls with different statuses both succeeded, and one of
\* them answered with the status the other wrote.
C14_Witness ==
    \E r \in DOMAIN req : \E other \in DOMAIN req \ {r} :
        /\ Succeeded(r) /\ Succeeded(other)
        /\ req[r].id = req[other].id
        /\ req[r].status # req[other].status
        /\ req[r].body.status = req[other].status
        /\ applications[req[r].id] \in SequentialOutcomes

\* ------------------------------------------------------------ authMiddleware
\* Strings are sequences of characters, so that toLowerCase is computed.
Manager == <<"m", "a", "n", "a", "g", "e", "r">>
ManagerCapital == <<"M", "a", "n", "a", "g", "e", "r">>
ManagerUpper == <<"M", "A", "N", "A", "G", "E", "R">>
Tenant == <<"t", "e", "n", "a", "n", "t">>
TenantCapital == <<"T", "e", "n", "a", "n", "t">>
Empty == << >>
RoleStrings == {Manager, ManagerCapital, ManagerUpper, Tenant, TenantCapital, Empty}

UpperToLower == [c \in {"M", "A", "N", "G", "E", "R", "T"} |-> CASE c = "M" -> "m" [] c = "A" -> "a" [] c = "N" -> "n" [] c = "G" -> "g" [] c = "E" -> "e" [] c = "R" -> "r" [] c = "T" -> "t"]

\* String.prototype.toLowerCase
ToLowerCase(str) == [i \in DOMAIN str |-> IF str[i] \in DOMAIN UpperToLower THEN UpperToLower[str[i]] ELSE str[i]]

\* A "custom:role" claim: a string, absent, or (the token is not verified and the
\* cast to DecodedToken is unchecked) a JSON number.
RoleClaims == {[type |-> "string", str |-> x, num |-> 0] : x \in RoleStrings} \cup {[type |-> "undefined", str |-> Empty, num |-> 0]} \cup {[type |-> "number", str |-> Empty, num |-> n] : n \in {0, 5}}

Subjects == {"u1", "u2"}

\* The token after "Bearer ": the empty string, a string jwt.decode returns null
\* for, or a JWT with its payload.
Tokens == {[kind |-> "empty", sub |-> None, role |-> [type |-> "undefined", str |-> Empty, num |-> 0]], [kind |-> "malformed", sub |-> None, role |-> [type |-> "undefined", str |-> Empty, num |-> 0]]} \cup {[kind |-> "jwt", sub |-> u, role |-> c] : u \in Subjects, c \in RoleClaims}

NoToken == [kind |-> "undefined", sub |-> None, role |-> [type |-> "undefined", str |-> Empty, num |-> 0]]

\* req.headers.authorization?.split(" "): the header is missing (present FALSE),
\* is the one word "Bearer" (nothing at index 1), or is "Bearer <token>".
Authorizations == {[present |-> FALSE, second |-> NoToken], [present |-> TRUE, second |-> NoToken]} \cup {[present |-> TRUE, second |-> t] : t \in Tokens}

\* router.post("/", authMiddleware(["manager"]), ...)
PropertiesPostRoles == <<Manager>>
AllowLists == {PropertiesPostRoles, <<Tenant>>, <<Manager, Tenant>>, <<ManagerCapital>>, <<Empty>>}

\* authorization?.split(" ")[1]: undefined without a header or a second part.
\* !token holds for undefined and for the empty string.
HasToken(header) == header.present /\ header.second.kind \notin {"undefined", "empty"}

\* Mutant: every token is taken to decode to a payload.
JwtDecodesAnything(token) == TRUE

\* jwt.decode(token): null for a malformed token, else the payload.
JwtDecodes(token) == token.kind = "jwt"

\* decoded["custom:role"] || "": a falsy claim (absent, "", 0) gives "".
UserRole(claim) == IF claim.type = "undefined" \/ (claim.type = "string" /\ claim.str = Empty) \/ (claim.type = "number" /\ claim.num = 0) THEN [type |-> "string", str |-> Empty, num |-> 0] ELSE claim

\* Array.prototype.includes (strict equality)
Includes(list, str) == \E i \in DOMAIN list : list[i] = str

\* allowedRoles.includes(userRole.toLowerCase())
HasAccess(list, userRole) == Includes(list, ToLowerCase(userRole.str))

InitAuth ==
    /\ authPc = "idle"
    /\ authorization = [present |-> FALSE, second |-> NoToken]
    /\ allowedRoles = PropertiesPostRoles
    /\ resStatus = << >>
    /\ reqUser = << >>
    /\ nextCalls = 0

\* A request reaches a route guarded by authMiddleware(list).
authRequest(header, list) ==
    /\ authPc = "idle"
    /\ authPc' = "gate"
    /\ authorization' = header
    /\ allowedRoles' = list
    /\ resStatus' = << >>
    /\ reqUser' = << >>
    /\ nextCalls' = 0

\* The middleware body, which runs without an await.
authMiddleware ==
    /\ authPc = "gate"
    /\ UNCHANGED <<authorization, allowedRoles>>
    /\ IF ~HasToken(authorization)
       THEN /\ resStatus' = Append(resStatus, 401)
            /\ UNCHANGED <<reqUser, nextCalls>>
            /\ authPc' = "responded"
       ELSE LET token == authorization.second
            IN IF ~JwtDecodes(token)
               THEN \* decoded is null: reading its claim throws, the catch answers 400
                    /\ resStatus' = Append(resStatus, 400)
                    /\ UNCHANGED <<reqUser, nextCalls>>
                    /\ authPc' = "responded"
               ELSE LET userRole == UserRole(token.role)
                    IN /\ reqUser' = <<[id |-> token.sub, role |-> userRole]>>
                       /\ IF userRole.type # "string"
                          THEN \* userRole.toLowerCase is not a function: the catch answers 400
                               /\ resStatus' = Append(resStatus, 400)
                               /\ UNCHANGED nextCalls
                               /\ authPc' = "responded"
                          ELSE IF ~HasAccess(allowedRoles, userRole)
                          THEN /\ resStatus' = Append(resStatus, 403)
                               /\ UNCHANGED nextCalls
                               /\ authPc' = "responded"
                          ELSE /\ UNCHANGED resStatus
                               /\ nextCalls' = nextCalls + 1
                               /\ authPc' = "next"

\* The request is over (answered by the gate or by the handlers after it).
authFinish ==
    /\ authPc \in {"responded", "next"}
    /\ authPc' = "idle"
    /\ UNCHANGED <<authorization, allowedRoles, resStatus, reqUser, nextCalls>>

AuthRan == authPc \in {"responded", "next"}

\* ----------------------------------------------------- claims on the gate
\* The role the claims speak of: the claim, or "" when it is absent (falsy);
\* a claim that is no string equals no allow-list entry.
ClaimIsString(claim) == claim.type \in {"string", "undefined"} \/ (claim.type = "number" /\ claim.num = 0)
ClaimString(claim) == IF claim.type = "string" THEN claim.str ELSE Empty

\* Exactly one outcome: one error response and no next(), or next() once and no
\* response from the gate.
OneOutcome ==
    \/ authPc = "responded" /\ Len(resStatus) = 1 /\ resStatus[1] \in {400, 401, 403} /\ nextCalls = 0
    \/ authPc = "next" /\ resStatus = << >> /\ nextCalls = 1

\* On POST /properties (allow-list ["manager"]) role "tenant" gets 403 and role
\* "manager" is admitted.
ManagerRoute ==
    (allowedRoles = PropertiesPostRoles /\ authorization.present /\ authorization.second.kind = "jwt" /\ authorization.second.role.type = "string") =>
        /\ authorization.second.role.str = Tenant => resStatus = <<403>>
        /\ authorization.second.role.str = Manager => (nextCalls = 1 /\ resStatus = << >>)

\* C7 as amended: the gate produces exactly one outcome: 401 without a bearer
\* token; 400 when the token cannot be decoded or its role claim is a truthy
\* non-string; 403 when the token decodes, its role is a string (or absent)
\* and the allow-list check fails; otherwise req.user is the subject and role
\* and next is called once.  next is never called after an error response.
C7_GateOutcomes ==
    AuthRan =>
        LET token == authorization.second
            hasToken == authorization.present /\ token.kind \in {"malformed", "jwt"}
        IN /\ OneOutcome
           /\ resStatus = <<401>> <=> ~hasToken
           /\ resStatus = <<400>> <=> (hasToken /\ (token.kind = "malformed" \/ ~ClaimIsString(token.role)))
           /\ resStatus = <<403>> <=> (hasToken /\ token.kind = "jwt" /\ ClaimIsString(token.role) /\ ~HasAccess(allowedRoles, [str |-> ClaimString(token.role)]))
           /\ nextCalls = 1 => reqUser = <<[id |-> token.sub, role |-> [type |-> "string", str |-> ClaimString(token.role), num |-> 0]]>>
           /\ ManagerRoute

\* C7 as claimed: 400 exactly when the token cannot be decoded, 403 exactly when
\* it decodes and its role is not in the allow-list.
C7_GateOutcomesAsClaimed ==
    AuthRan =>
        LET token == authorization.second
            hasToken == authorization.present /\ token.kind \in {"malformed", "jwt"}
            allowed == ClaimIsString(token.role) /\ HasAccess(allowedRoles, [str |-> ClaimString(token.role)])
        IN /\ OneOutcome
           /\ resStatus = <<401>> <=> ~hasToken
           /\ resStatus = <<400>> <=> (hasToken /\ token.kind = "malformed")
           /\ resStatus = <<403>> <=> (hasToken /\ token.kind = "jwt" /\ ~allowed)
           /\ nextCalls = 1 => Len(reqUser) = 1 /\ reqUser[1].id = token.sub
           /\ ManagerRoute

\* C7's case: a token that decodes was answered 400 for its role claim.
C7_Witness == authPc = "responded" /\ resStatus = <<400>> /\ authorization.second.kind = "jwt" /\ allowedRoles = PropertiesPostRoles

\* C8: for a token that decodes, the request is admitted if and only if some
\* allow-list entry equals the role claim with letter case ignored on both sides.
C8_CaseInsensitiveBothSides ==
    (AuthRan /\ authorization.present /\ authorization.second.kind = "jwt") =>
        (nextCalls = 1 <=>
            /\ ClaimIsString(authorization.second.role)
            /\ \E i \in DOMAIN allowedRoles : ToLowerCase(allowedRoles[i]) = ToLowerCase(ClaimString(authorization.second.role)))

\* -------------------------------------------------- calculateNextPaymentDate
\* A Date at day resolution: year, month as getMonth() gives it (0..11), day of
\* the month.  Both dates of a comparison carry the same time of day.
Years == 2023..LastYear
IsLeapYear(y) == (y % 4 = 0 /\ y % 100 # 0) \/ y % 400 = 0
DaysInMonth(y, m) == IF m = 1 THEN (IF IsLeapYear(y) THEN 29 ELSE 28) ELSE IF m \in {3, 5, 8, 10} THEN 30 ELSE 31
MakeDate(y, m, d) == [year |-> y, month |-> m, date |-> d]
StartDays == {1, 15, 28, 29, 30, 31}
TodayDays == {1, 2, 3, 15, 20, 31}
StartDates == {MakeDate(y, m, d) : y \in Years, m \in 0..11, d \in StartDays} \cap {x \in [year : Years, month : 0..11, date : StartDays] : x.date <= DaysInMonth(x.year, x.month)}
TodayDates == {x \in [year : Years, month : 0..11, date : TodayDays] : x.date <= DaysInMonth(x.year, x.month)}

\* The order of two Dates (their time values).
TimeValue(x) == (x.year * 12 + x.month) * 31 + x.date

\* Date.prototype.setMonth(month): the month may be 12 (the next January), and a
\* day the month does not have runs over into the month after it.
SetMonth(x, month) ==
    LET y == x.year + (month \div 12)
        m == month % 12
    IN IF x.date <= DaysInMonth(y, m)
       THEN MakeDate(y, m, x.date)
       ELSE MakeDate(y + ((m + 1) \div 12), (m + 1) % 12, x.date - DaysInMonth(y, m))

\* Mutant: the loop stops as soon as the date is not before today.
LoopContinuesBefore(next, now) == TimeValue(next) < TimeValue(now)

\* while (nextPaymentDate <= today)
LoopContinues(next, now) == TimeValue(next) <= TimeValue(now)

InitDate ==
    /\ datePc = "idle"
    /\ startDate = MakeDate(2023, 0, 15)
    /\ today = MakeDate(2023, 0, 15)
    /\ nextPaymentDate = MakeDate(2023, 0, 15)
    /\ visited = << >>

\* The call: today = new Date(); nextPaymentDate = new Date(startDate).
calculateNextPaymentDate_enter ==
    /\ datePc = "idle"
    /\ datePc' = "loop"
    /\ \E start \in StartDates, now \in TodayDates :
        /\ startDate' = start
        /\ today' = now
        /\ nextPaymentDate' = start
        /\ visited' = <<start>>

\* The loop body: nextPaymentDate.setMonth(nextPaymentDate.getMonth() + 1).
calculateNextPaymentDate_advance ==
    /\ datePc = "loop"
    /\ LoopContinues(nextPaymentDate, today)
    /\ nextPaymentDate' = SetMonth(nextPaymentDate, nextPaymentDate.month + 1)
    /\ visited' = Append(visited, nextPaymentDate')
    /\ UNCHANGED <<datePc, startDate, today>>

\* The loop ends: return nextPaymentDate.
calculateNextPaymentDate_return ==
    /\ datePc = "loop"
    /\ ~LoopContinues(nextPaymentDate, today)
    /\ datePc' = "returned"
    /\ UNCHANGED <<startDate, today, nextPaymentDate, visited>>

\* ------------------------------------------ claims on the next payment date
MonthIndex(x) == x.year * 12 + x.month

\* C9: calculateNextPaymentDate terminates (the loop body runs at most once per
\* month from the start's month to today's) and returns the first date of the
\* sequence start, start + 1 month, ... (each the one before advanced by one
\* calendar month) that is strictly later than today: every earlier date of
\* the sequence is not later than today.  Start 2023-01-15 with today
\* 2023-03-20 gives 2023-04-15.
C9_NextPaymentDate ==
    datePc \in {"loop", "returned"} =>
        /\ visited[1] = startDate
        /\ visited[Len(visited)] = nextPaymentDate
        /\ \A j \in 1..(Len(visited) - 1) :
            /\ visited[j + 1] = SetMonth(visited[j], visited[j].month + 1)
            /\ MonthIndex(visited[j + 1]) \in {MonthIndex(visited[j]) + 1, MonthIndex(visited[j]) + 2}
            /\ TimeValue(visited[j]) <= TimeValue(today)
        /\ Len(visited) - 1 <= IF MonthIndex(today) >= MonthIndex(startDate) THEN MonthIndex(today) - MonthIndex(startDate) + 1 ELSE 0
        /\ datePc = "returned" =>
            /\ TimeValue(nextPaymentDate) > TimeValue(today)
            /\ (startDate = MakeDate(2023, 0, 15) /\ today = MakeDate(2023, 2, 20)) => nextPaymentDate = MakeDate(2023, 3, 15)

\* C9's case: the lease started on the 31st in the past, the loop ran over a
\* shorter month and returned.
C9_Witness == datePc = "returned" /\ startDate = MakeDate(2023, 0, 31) /\ today = MakeDate(2023, 2, 20) /\ nextPaymentDate = MakeDate(2023, 3, 3) /\ Len(visited) = 3

\* -------------------------------------------------------- propertyControllers
\* Points of the geocoder's answers; (0, 0) is the fallback without an answer.
NoPoint == <<0, 0>>
GeocodedPoints == {<<10, 20>>}

\* getProperties: the filter parameters of req.query; a parameter is a string,
\* or None when the request does not carry it.
FilterNames == {"favoriteIds", "priceMin", "priceMax", "beds", "baths", "propertyType", "squareFeetMin", "squareFeetMax", "amenities", "availableFrom", "latitude", "longitude"}
NoQuery == [f \in FilterNames |-> None]
OneFilter == {<<"favoriteIds", "1">>, <<"favoriteIds", "1,2">>, <<"priceMin", "1000">>, <<"priceMin", "">>, <<"priceMax", "1000">>, <<"beds", "2">>, <<"beds", "any">>, <<"baths", "1">>, <<"baths", "any">>, <<"squareFeetMin", "1000">>, <<"squareFeetMax", "500">>, <<"propertyType", "Villa">>, <<"propertyType", "any">>, <<"amenities", "Pool,Gym">>, <<"amenities", "any">>, <<"availableFrom", "2024-01-01">>, <<"availableFrom", "soon">>, <<"latitude", "20">>}
TwoFilters == {[NoQuery EXCEPT !.latitude = "20", !.longitude = "10"], [NoQuery EXCEPT !.priceMin = "2000", !.priceMax = "1000"], [NoQuery EXCEPT !.beds = "2", !.propertyType = "Villa"], [NoQuery EXCEPT !.beds = "any", !.priceMax = "1000"]}
Queries == {NoQuery} \cup {[NoQuery EXCEPT ![f[1]] = f[2]] : f \in OneFilter} \cup TwoFilters

\* A handler frame: the request (id, files, managerCognitoId, query), the locals
\* (property, photoUrls, point, location, rows), the responses sent and the
\* caught error's origin.
NoRow == [id |-> 0, locationId |-> 0, managerCognitoId |-> None, photoUrls |-> 0]
IdlePropertyFrame == [pc |-> "idle", kind |-> None, id |-> 0, files |-> 0, managerCognitoId |-> None, property |-> NoRow, photoUrls |-> 0, point |-> NoPoint, location |-> 0, responses |-> << >>, body |-> NoRow, coordinates |-> NoPoint, error |-> None, query |-> NoQuery, rows |-> {}]

InitProperty ==
    /\ locations = {}
    /\ properties = << >>
    /\ nextLocationId = 1
    /\ nextPropertyId = 1
    /\ s3Objects = 0
    /\ pReq = IdlePropertyFrame

PropertyDbUnchanged == UNCHANGED <<locations, properties, nextLocationId, nextPropertyId, s3Objects>>

\* res.status(code).json(...)
PropertyRespond(frame, code) == [frame EXCEPT !.responses = Append(@, code)]

\* The catch block: 500 with the error's message; the handler returns.
PropertyCatch(origin) == pReq' = [PropertyRespond(pReq, 500) EXCEPT !.pc = "returned", !.error = origin]

\* ST_asText of a stored point, and wktToGeoJSON of that text (it throws on "").
AsText(point) == [wkt |-> "POINT", x |-> point[1], y |-> point[2]]
WktToGeoJSON(text) == [type |-> "Point", coordinates |-> <<text.x, text.y>>]

\* getProperty: the request arrives and the handler runs findUnique.  Without a
\* property the if is skipped and the handler returns.
getProperty_findUnique(id) ==
    /\ pReq.pc = "idle"
    /\ PropertyDbUnchanged
    /\ LET frame == [IdlePropertyFrame EXCEPT !.kind = "getProperty", !.id = id]
       IN \E ok \in BOOLEAN :
           IF ~ok THEN pReq' = [PropertyRespond(frame, 500) EXCEPT !.pc = "returned", !.error = "property.findUnique"]
           ELSE IF id \in DOMAIN properties
           THEN pReq' = [frame EXCEPT !.pc = "gp_coordinates", !.property = properties[id]]
           ELSE pReq' = [frame EXCEPT !.pc = "returned"]

\* getProperty: the coordinates query, wktToGeoJSON and the response.
getProperty_coordinates ==
    /\ pReq.pc = "gp_coordinates"
    /\ PropertyDbUnchanged
    /\ \E ok \in BOOLEAN :
        LET rows == {l \in locations : l.id = pReq.property.locationId}
        IN IF ~ok THEN PropertyCatch("$queryRaw")
           ELSE IF rows = {} THEN PropertyCatch("wktToGeoJSON")
           ELSE LET geoJSON == WktToGeoJSON(AsText((CHOOSE l \in rows : TRUE).coordinates))
                IN pReq' = [PropertyRespond(pReq, 200) EXCEPT !.pc = "returned", !.body = pReq.property, !.coordinates = <<geoJSON.coordinates[1], geoJSON.coordinates[2]>>]

\* createProperty: the request arrives and the photos are uploaded (Promise.all:
\* a failed upload leaves the others in the bucket).
createProperty_upload(files, manager) ==
    /\ pReq.pc = "idle"
    /\ nextPropertyId <= MaxProperties
    /\ nextLocationId <= MaxProperties + 1
    /\ s3Objects + files <= MaxObjects
    /\ UNCHANGED <<locations, properties, nextLocationId, nextPropertyId>>
    /\ LET frame == [IdlePropertyFrame EXCEPT !.kind = "createProperty", !.files = files, !.managerCognitoId = manager]
       IN \/ /\ s3Objects' = s3Objects + files
             /\ pReq' = [frame EXCEPT !.pc = "cp_geocode", !.photoUrls = files]
          \/ \E stored \in 0..(files - 1) :
                /\ s3Objects' = s3Objects + stored
                /\ pReq' = [PropertyRespond(frame, 500) EXCEPT !.pc = "returned", !.error = "Upload"]

\* createProperty: the geocoding request; an answer without lon/lat gives (0, 0).
createProperty_geocode ==
    /\ pReq.pc = "cp_geocode"
    /\ PropertyDbUnchanged
    /\ \/ \E point \in GeocodedPoints \cup {NoPoint} : pReq' = [pReq EXCEPT !.pc = "cp_location", !.point = point]
       \/ PropertyCatch("axios.get")

\* createProperty: INSERT INTO "Location" ... RETURNING.
createProperty_insertLocation ==
    /\ pReq.pc = "cp_location"
    /\ UNCHANGED <<properties, nextPropertyId, s3Objects>>
    /\ \/ /\ locations' = locations \cup {[id |-> nextLocationId, coordinates |-> pReq.point]}
          /\ nextLocationId' = nextLocationId + 1
          /\ pReq' = [pReq EXCEPT !.pc = "cp_property", !.location = nextLocationId]
       \/ /\ UNCHANGED <<locations, nextLocationId>>
          /\ PropertyCatch("$queryRaw")

\* createProperty: property.create and the 201 response.
createProperty_propertyCreate ==
    /\ pReq.pc = "cp_property"
    /\ UNCHANGED <<locations, nextLocationId, s3Objects>>
    /\ \/ LET row == [id |-> nextPropertyId, locationId |-> pReq.location, managerCognitoId |-> pReq.managerCognitoId, photoUrls |-> pReq.photoUrls]
          IN /\ properties' = properties @@ (nextPropertyId :> row)
             /\ nextPropertyId' = nextPropertyId + 1
             /\ pReq' = [PropertyRespond(pReq, 201) EXCEPT !.pc = "returned", !.body = row]
       \/ /\ UNCHANGED <<properties, nextPropertyId>>
          /\ PropertyCatch("property.create")

\* The handler has returned; the next request is taken.
propertyHandlerReturned ==
    /\ pReq.pc = "returned"
    /\ PropertyDbUnchanged
    /\ pReq' = IdlePropertyFrame

\* ------------------------------------------------------------ getProperties
\* The scalar attributes the id-th created Property was stored with (the
\* request body of createProperty after parseInt, parseFloat and split).
PropertyData(id) == [pricePerMonth |-> 1000 * id, beds |-> id, baths |-> 1, squareFeet |-> 500 * id, propertyType |-> IF id % 2 = 1 THEN "Apartment" ELSE "Villa", amenities |-> IF id % 2 = 1 THEN {"Pool"} ELSE {"Pool", "Gym"}]

\* JavaScript on the parameters: if (x) is false for undefined and for "",
\* Number and parseFloat of the decimal strings, split(","), and the time
\* value of new Date(x) in days (NaN, here -1, when x is no date).
Truthy(x) == x # None /\ x # ""
Number == ("1" :> 1) @@ ("2" :> 2) @@ ("10" :> 10) @@ ("20" :> 20) @@ ("500" :> 500) @@ ("1000" :> 1000) @@ ("2000" :> 2000)
Split == ("1" :> <<"1">>) @@ ("1,2" :> <<"1", "2">>) @@ ("Pool,Gym" :> <<"Pool", "Gym">>)
DateTime == ("2024-01-01" :> 2) @@ ("soon" :> -1)
IsNaN(time) == time < 0

\* The radius of the geospatial filter: 1000 km at 111.32 km per degree, here
\* as the largest whole squared distance in degrees within it.
RadiusInKilometers == 1000
CentiKilometersPerDegree == 11132
DegreesSquared == (RadiusInKilometers * RadiusInKilometers * 100) \div ((CentiKilometersPerDegree * CentiKilometersPerDegree) \div 100)

\* One element of whereConditions: the column as the SQL text writes it (its
\* qualifier, if any, and whether it stands in double quotes), the operator
\* and the bound parameter.
Column(qualifier, name, quoted) == [qualifier |-> qualifier, name |-> name, quoted |-> quoted]
Condition(column, op, number, text, items) == [column |-> column, op |-> op, number |-> number, text |-> text, items |-> items]
Pushed(wanted, condition) == IF wanted THEN <<condition>> ELSE << >>
SplitNumbers(x) == {Number[Split[x][i]] : i \in DOMAIN Split[x]}
SplitItems(x) == {Split[x][i] : i \in DOMAIN Split[x]}

\* whereConditions as getProperties builds it from req.query.
WhereConditions(q) ==
    Pushed(Truthy(q.favoriteIds), Condition(Column("", "id", FALSE), "IN", 0, "", IF Truthy(q.favoriteIds) THEN SplitNumbers(q.favoriteIds) ELSE {}))
    \o Pushed(Truthy(q.priceMin), Condition(Column("", "pricePerMonth", FALSE), ">=", IF Truthy(q.priceMin) THEN Number[q.priceMin] ELSE 0, "", {}))
    \o Pushed(Truthy(q.priceMax), Condition(Column("", "pricePerMonth", FALSE), "<=", IF Truthy(q.priceMax) THEN Number[q.priceMax] ELSE 0, "", {}))
    \o Pushed(Truthy(q.beds) /\ q.beds # "any", Condition(Column("p", "beds", FALSE), ">=", IF Truthy(q.beds) /\ q.beds # "any" THEN Number[q.beds] ELSE 0, "", {}))
    \o Pushed(Truthy(q.baths) /\ q.baths # "any", Condition(Column("p", "baths", FALSE), ">=", IF Truthy(q.baths) /\ q.baths # "any" THEN Number[q.baths] ELSE 0, "", {}))
    \o Pushed(Truthy(q.squareFeetMin), Condition(Column("p", "squareFeet", TRUE), ">=", IF Truthy(q.squareFeetMin) THEN Number[q.squareFeetMin] ELSE 0, "", {}))
    \o Pushed(Truthy(q.squareFeetMax), Condition(Column("p", "squareFeet", TRUE), "<=", IF Truthy(q.squareFeetMax) THEN Number[q.squareFeetMax] ELSE 0, "", {}))
    \o Pushed(Truthy(q.propertyType) /\ q.propertyType # "any", Condition(Column("p", "propertyType", TRUE), "=", 0, q.propertyType, {}))
    \o Pushed(Truthy(q.amenities) /\ q.amenities # "any", Condition(Column("p", "amenities", FALSE), "@>", 0, "", IF Truthy(q.amenities) /\ q.amenities # "any" THEN SplitItems(q.amenities) ELSE {}))
    \o Pushed(Truthy(q.availableFrom) /\ ~IsNaN(DateTime[q.availableFrom]), Condition(Column("p", "id", FALSE), "EXISTS", IF Truthy(q.availableFrom) THEN DateTime[q.availableFrom] ELSE 0, "", {}))
    \o Pushed(Truthy(q.latitude) /\ Truthy(q.longitude), Condition(Column("l", "coordinates", FALSE), "ST_DWithin", DegreesSquared, "", IF Truthy(q.latitude) /\ Truthy(q.longitude) THEN {<<Number[q.longitude], Number[q.latitude]>>} ELSE {}))

\* The parentheses of the select list of completeQuery, in the order of the
\* text: json_build_object( json_build_object( ST_X( ) ST_Y( ) ) as location.
SelectListParentheses == <<"(", "(", "(", ")", "(", ")", ")">>
Count(s, n, c) == Cardinality({i \in 1..n : s[i] = c})
Balanced(s) == (\A n \in 1..Len(s) : Count(s, n, ")") <= Count(s, n, "(")) /\ Count(s, Len(s), ")") = Count(s, Len(s), "(")

\* The columns of the two joined tables as the schema names them, and the
\* name PostgreSQL looks up: an identifier outside double quotes is folded to
\* lower case.
TableColumns == ("p" :> {"id", "pricePerMonth", "beds", "baths", "squareFeet", "propertyType", "amenities", "locationId", "managerCognitoId", "photoUrls"}) @@ ("l" :> {"id", "address", "city", "state", "country", "postalCode", "coordinates"})
Folded == ("pricePerMonth" :> "pricepermonth") @@ ("squareFeet" :> "squarefeet") @@ ("propertyType" :> "propertytype")
LookedUp(column) == IF ~column.quoted /\ column.name \in DOMAIN Folded THEN Folded[column.name] ELSE column.name
\* A column reference resolves when exactly one table it may mean has it.
Resolves(column) == Cardinality({t \in DOMAIN TableColumns : column.qualifier \in {"", t} /\ LookedUp(column) \in TableColumns[t]}) = 1

\* PostgreSQL executes completeQuery only when the text parses and every
\* column of its WHERE clause resolves.
QueryExecutes(conditions) == Balanced(SelectListParentheses) /\ \A i \in DOMAIN conditions : Resolves(conditions[i].column)

\* Leases start on the day they are created; the days are counted by the
\* lease ids, as are the time values of DateTime.
StartDay(l) == l.id

\* One condition on one row of Property p JOIN Location l.
Holds(c, id, l) ==
    LET value == IF c.column.name \in DOMAIN PropertyData(id) THEN PropertyData(id)[c.column.name] ELSE id
    IN CASE c.op = "IN" -> value \in c.items
         [] c.op = ">=" -> value >= c.number
         [] c.op = "<=" -> value <= c.number
         [] c.op = "=" -> value = c.text
         [] c.op = "@>" -> c.items \subseteq value
         [] c.op = "EXISTS" -> \E lease \in leases : lease.propertyId = id /\ StartDay(lease) <= c.number
         [] c.op = "ST_DWithin" -> \A point \in c.items : (l.coordinates[1] - point[1]) * (l.coordinates[1] - point[1]) + (l.coordinates[2] - point[2]) * (l.coordinates[2] - point[2]) <= c.number

\* The ids of the rows of the join that satisfy every condition.
QueryRows(conditions) == {id \in DOMAIN properties : \E l \in locations : l.id = properties[id].locationId /\ \A i \in DOMAIN conditions : Holds(conditions[i], id, l)}

\* getProperties: the request arrives, the query is built and executed, and
\* the rows are sent; an error of the database is caught and answered by 500.
getProperties_queryRaw(q) ==
    /\ pReq.pc = "idle"
    /\ PropertyDbUnchanged
    /\ LET frame == [IdlePropertyFrame EXCEPT !.kind = "getProperties", !.query = q]
           whereConditions == WhereConditions(q)
       IN \E ok \in BOOLEAN :
           IF ~ok THEN pReq' = [PropertyRespond(frame, 500) EXCEPT !.pc = "returned", !.error = "$queryRaw"]
           ELSE IF ~QueryExecutes(whereConditions) THEN pReq' = [PropertyRespond(frame, 500) EXCEPT !.pc = "returned", !.error = "PostgreSQL"]
           ELSE pReq' = [PropertyRespond(frame, 200) EXCEPT !.pc = "returned", !.rows = QueryRows(whereConditions)]

\* ------------------------------------------------ claims on the properties
\* C10: every getProperty request gets exactly one response: the property with
\* its coordinates when a Property with that id exists, a 404 when none does.
C10_GetPropertyResponds ==
    (pReq.kind = "getProperty" /\ pReq.pc = "returned") =>
        /\ Len(pReq.responses) = 1
        /\ pReq.error = None =>
            /\ pReq.id \in DOMAIN properties =>
                /\ pReq.responses = <<200>>
                /\ pReq.body = properties[pReq.id]
                /\ \E l \in locations : l.id = pReq.body.locationId /\ l.coordinates = pReq.coordinates
            /\ pReq.id \notin DOMAIN properties => pReq.responses = <<404>>

\* A filter is supplied when the request carries its parameter, for beds,
\* baths, propertyType and amenities with a value other than "any"; the
\* geospatial filter takes both latitude and longitude, and a supplied value
\* that is empty or no date constrains nothing.
Supplied(q, f) == Truthy(q[f]) /\ (f \in {"beds", "baths", "propertyType", "amenities"} => q[f] # "any")
Satisfies(id, l, q) ==
    /\ Supplied(q, "favoriteIds") => id \in SplitNumbers(q.favoriteIds)
    /\ Supplied(q, "priceMin") => PropertyData(id).pricePerMonth >= Number[q.priceMin]
    /\ Supplied(q, "priceMax") => PropertyData(id).pricePerMonth <= Number[q.priceMax]
    /\ Supplied(q, "beds") => PropertyData(id).beds >= Number[q.beds]
    /\ Supplied(q, "baths") => PropertyData(id).baths >= Number[q.baths]
    /\ Supplied(q, "squareFeetMin") => PropertyData(id).squareFeet >= Number[q.squareFeetMin]
    /\ Supplied(q, "squareFeetMax") => PropertyData(id).squareFeet <= Number[q.squareFeetMax]
    /\ Supplied(q, "propertyType") => PropertyData(id).propertyType = q.propertyType
    /\ Supplied(q, "amenities") => SplitItems(q.amenities) \subseteq PropertyData(id).amenities
    /\ (Supplied(q, "availableFrom") /\ ~IsNaN(DateTime[q.availableFrom])) => \E lease \in leases : lease.propertyId = id /\ StartDay(lease) <= DateTime[q.availableFrom]
    /\ (Supplied(q, "latitude") /\ Supplied(q, "longitude")) => (l[1] - Number[q.longitude]) * (l[1] - Number[q.longitude]) + (l[2] - Number[q.latitude]) * (l[2] - Number[q.latitude]) <= DegreesSquared
MatchingProperties(q) == {id \in DOMAIN properties : \E l \in locations : l.id = properties[id].locationId /\ Satisfies(id, l.coordinates, q)}

\* C11: a getProperties request that reaches the database is answered by
\* exactly the properties that satisfy every supplied filter (an absent
\* parameter, or "any" for beds, baths, propertyType and amenities, constrains
\* nothing), and without any filter by all the properties.
C11_FilterConjunction ==
    (pReq.kind = "getProperties" /\ pReq.pc = "returned" /\ pReq.error # "$queryRaw") =>
        /\ pReq.responses = <<200>>
        /\ pReq.rows = MatchingProperties(pReq.query)
        /\ pReq.query = NoQuery => pReq.rows = DOMAIN properties

\* C12: createProperty is all-or-nothing: when the handler has returned, after
\* success or after an error at any step, every Location is referenced by a
\* Property (a Location and its Property were persisted together or not at
\* all), and a 201 response means both rows exist.
C12_CreatePropertyAllOrNothing ==
    (pReq.kind = "createProperty" /\ pReq.pc = "returned") =>
        /\ \A l \in locations : \E id \in DOMAIN properties : properties[id].locationId = l.id
        /\ Cardinality(locations) = Cardinality(DOMAIN properties)
        /\ pReq.responses = <<201>> => (pReq.body.id \in DOMAIN properties /\ \E l \in locations : l.id = pReq.body.locationId)

\* ------------------------------------------------------------ specification
Init == InitLifecycle /\ InitAuth /\ InitDate /\ InitProperty

Next ==
    \/ \E r \in DOMAIN req, p \in RequestPropertyIds, t \in Tenants, s \in Statuses : createApplication_findProperty(r, p, t, s) /\ UNCHANGED <<authVars, dateVars, propertyVars>>
    \/ \E r \in DOMAIN req : createApplication_leaseCreate(r) /\ UNCHANGED <<authVars, dateVars, propertyVars>>
    \/ \E r \in DOMAIN req : createApplication_applicationCreate(r) /\ UNCHANGED <<authVars, dateVars, propertyVars>>
    \/ \E r \in DOMAIN req, id \in AppIds, s \in Statuses : updateApplicationStatus_find(r, id, s) /\ UNCHANGED <<authVars, dateVars, propertyVars>>
    \/ \E r \in DOMAIN req : updateApplicationStatus_leaseCreate(r) /\ UNCHANGED <<authVars, dateVars, propertyVars>>
    \/ \E r \in DOMAIN req : updateApplicationStatus_connectTenant(r) /\ UNCHANGED <<authVars, dateVars, propertyVars>>
    \/ \E r \in DOMAIN req : updateApplicationStatus_updateApproved(r) /\ UNCHANGED <<authVars, dateVars, propertyVars>>
    \/ \E r \in DOMAIN req : updateApplicationStatus_updateStatus(r) /\ UNCHANGED <<authVars, dateVars, propertyVars>>
    \/ \E r \in DOMAIN req : updateApplicationStatus_refetch(r) /\ UNCHANGED <<authVars, dateVars, propertyVars>>
    \/ \E r \in DOMAIN req, u \in UserIds, ut \in UserTypes : listApplications_findMany(r, u, ut) /\ UNCHANGED <<authVars, dateVars, propertyVars>>
    \/ \E r \in DOMAIN req : listApplications_respond(r) /\ UNCHANGED <<authVars, dateVars, propertyVars>>
    \/ \E r \in DOMAIN req : handlerReturns(r) /\ UNCHANGED <<authVars, dateVars, propertyVars>>

Spec == Init /\ [][Next]_vars

\* The authorization gate on its own.
NextAuth ==
    \/ \E h \in Authorizations, l \in AllowLists : authRequest(h, l) /\ UNCHANGED <<lifecycleVars, dateVars, propertyVars>>
    \/ authMiddleware /\ UNCHANGED <<lifecycleVars, dateVars, propertyVars>>
    \/ authFinish /\ UNCHANGED <<lifecycleVars, dateVars, propertyVars>>

SpecAuth == Init /\ [][NextAuth]_vars

\* calculateNextPaymentDate on every start date and current date of the bounds.
NextDate ==
    \/ calculateNextPaymentDate_enter /\ UNCHANGED <<lifecycleVars, authVars, propertyVars>>
    \/ calculateNextPaymentDate_advance /\ UNCHANGED <<lifecycleVars, authVars, propertyVars>>
    \/ calculateNextPaymentDate_return /\ UNCHANGED <<lifecycleVars, authVars, propertyVars>>

SpecDate == Init /\ [][NextDate]_vars

\* The property handlers.
NextProperty ==
    \/ \E id \in 1..MaxProperties : getProperty_findUnique(id) /\ UNCHANGED <<lifecycleVars, authVars, dateVars>>
    \/ getProperty_coordinates /\ UNCHANGED <<lifecycleVars, authVars, dateVars>>
    \/ \E files \in 0..MaxFiles, m \in Managers : createProperty_upload(files, m) /\ UNCHANGED <<lifecycleVars, authVars, dateVars>>
    \/ createProperty_geocode /\ UNCHANGED <<lifecycleVars, authVars, dateVars>>
    \/ createProperty_insertLocation /\ UNCHANGED <<lifecycleVars, authVars, dateVars>>
    \/ createProperty_propertyCreate /\ UNCHANGED <<lifecycleVars, authVars, dateVars>>
    \/ \E q \in Queries : getProperties_queryRaw(q) /\ UNCHANGED <<lifecycleVars, authVars, dateVars>>
    \/ propertyHandlerReturned /\ UNCHANGED <<lifecycleVars, authVars, dateVars>>

SpecProperty == Init /\ [][NextProperty]_vars

\* Two updateApplicationStatus calls, their database reads and writes
\* interleaved, on the one application of the database.
InitConcurrent ==
    /\ leases = {InitialLease}
    /\ applications = (InitialApplication.id :> InitialApplication)
    /\ propertyTenants = [p \in PropertyIds |-> {}]
    /\ nextLeaseId = InitialLease.id + 1
    /\ nextAppId = InitialApplication.id + 1
    /\ req = [r \in ConcurrentReqs |-> IdleFrame]
    /\ createdWith = (InitialApplication.id :> InitialLease.id)
    /\ InitAuth /\ InitDate /\ InitProperty

NextConcurrent ==
    \/ \E r \in DOMAIN req, id \in AppIds, s \in Statuses : updateApplicationStatus_find(r, id, s) /\ UNCHANGED <<authVars, dateVars, propertyVars>>
    \/ \E r \in DOMAIN req : updateApplicationStatus_leaseCreate(r) /\ UNCHANGED <<authVars, dateVars, propertyVars>>
    \/ \E r \in DOMAIN req : updateApplicationStatus_connectTenant(r) /\ UNCHANGED <<authVars, dateVars, propertyVars>>
    \/ \E r \in DOMAIN req : updateApplicationStatus_updateApproved(r) /\ UNCHANGED <<authVars, dateVars, propertyVars>>
    \/ \E r \in DOMAIN req : updateApplicationStatus_updateStatus(r) /\ UNCHANGED <<authVars, dateVars, propertyVars>>
    \/ \E r \in DOMAIN req : updateApplicationStatus_refetch(r) /\ UNCHANGED <<authVars, dateVars, propertyVars>>

SpecConcurrent == InitConcurrent /\ [][NextConcurrent]_vars

====
